---------------------------- MODULE Spec2Model ----------------------------
(***************************************************************************)
(* Model of src/index.ts (notion-guardian): the export driver              *)
(* exportFromNotion (enqueue, polling loop, download) and the archive      *)
(* normaliser extractZip.                                                  *)
(***************************************************************************)
EXTENDS Integers, Sequences, FiniteSets, TLC

(***************************************************************************)
(* Program constants and model bounds                                      *)
(***************************************************************************)
POLL_INTERVAL == 3

MAX_POLL_ATTEMPTS == 100

\* at most this many HTTP 429 answers in one run (caps rateLimitRetries)
MaxRateLimited == 3

\* largest content-length of the download, in chunks
MaxBytes == 2

\* largest number of files and folders in the exported archive, nested ones included
MaxNodes == 6

(***************************************************************************)
(* Status responses: what client.post("getTasks") can settle with          *)
(***************************************************************************)
TaskStates == {"success", "failure", "in_progress", "unknown"}

\* the set-cookie header: absent, present without / with a file_token= entry
CookieHeaders == {"none", "other", "token"}

NoResponse == [http |-> "none", found |-> FALSE, state |-> "unknown",
               error |-> FALSE, url |-> FALSE, cookie |-> "none"]

Responses ==
    [http : {"ok"}, found : {TRUE}, state : TaskStates, error : BOOLEAN,
     url : BOOLEAN, cookie : CookieHeaders]
    \cup [http : {"ok"}, found : {FALSE}, state : {"unknown"}, error : {FALSE},
          url : {FALSE}, cookie : CookieHeaders]
    \cup [http : {"429", "err"}, found : {FALSE}, state : {"unknown"},
          error : {FALSE}, url : {FALSE}, cookie : {"none"}]

VARIABLES
    pc,               \* the await point the run is suspended at, or done/failed
    err,              \* the error the run rejected with ("" while none)
    pollAttempts,     \* let pollAttempts
    rateLimitRetries, \* let rateLimitRetries
    atHead,           \* pollAttempts as tested by the last while-condition
    sleepFor,         \* argument of the pending / last sleep()
    exportURL,        \* let exportURL: number of the response it was read from, 0 = undefined
    fileTokenCookie,  \* let fileTokenCookie: number of the response, 0 = undefined
    nEnqueue,         \* enqueueTask requests issued
    nQueries,         \* getTasks requests issued
    n429,             \* 429 answers received
    allNotFound,      \* every answer so far was a 200 without a record for taskId
    last,             \* the last getTasks answer handled
    dl,               \* the download request: [url, cookie] used, or NoDownload
    size,             \* content-length of the download response
    received,         \* bytes the source stream delivered
    src,              \* the source stream: "none", "flowing", "ended", "errored"
    archive,          \* the downloaded archive, as the tree it unpacks to
    dest,             \* the destination directory tree
    zpc,              \* extractZip: "idle", "cleared", "open", "extract", "parts", "folders", "done", "failed", "finished"
    zerr,             \* the error extractZip rejected with ("" while none)
    partFiles,        \* const partFiles
    partIdx,          \* index of the next partFiles.map callback to run
    unlinks,          \* fs.unlink calls issued and not yet executed
    folders,          \* per export folder: the pending call and the children left to move
    runs,             \* how many times extractZip was started on this archive
    firstTree,        \* the destination tree the first run ended with
    listed            \* the destination tree that readdir(destination) listed

exportVars == <<pc, err, pollAttempts, rateLimitRetries, atHead, sleepFor,
                exportURL, fileTokenCookie, nEnqueue, nQueries, n429,
                allNotFound, last, dl, size, received, src>>

zipVars == <<archive, dest, zpc, zerr, partFiles, partIdx, unlinks, folders,
             runs, firstTree, listed>>

vars == <<exportVars, zipVars>>

pollVars == <<pollAttempts, rateLimitRetries, atHead, sleepFor, exportURL,
              fileTokenCookie, nQueries, n429, allNotFound, last>>

streamVars == <<size, received, src>>

NoDownload == [url |-> -1, cookie |-> -1]

RECURSIVE Pow2(_)
Pow2(n) == IF n = 0 THEN 1 ELSE 2 * Pow2(n - 1)

SleepSeconds_Flat(retries) == POLL_INTERVAL + 1

\* line 238: POLL_INTERVAL + 2 ** rateLimitRetries
SleepSeconds(retries) == POLL_INTERVAL + Pow2(retries)

LoopCond_Inclusive(attempts) == attempts <= MAX_POLL_ATTEMPTS

\* line 234: the while condition
LoopCond(attempts) == attempts < MAX_POLL_ATTEMPTS

TimedOut_Strict(attempts) == attempts > MAX_POLL_ATTEMPTS

\* line 304: the check after the loop
TimedOut(attempts) == attempts >= MAX_POLL_ATTEMPTS

AfterRateLimit_Kept(attempts) == attempts

\* line 294: pollAttempts-- in the 429 handler
AfterRateLimit(attempts) == attempts - 1

HasError_OnlyIfNotSuccess(r) == r.error /\ r.state # "success"

\* line 263: if (task.error)
HasError(r) == r.error

MissingURL_Never(r) == FALSE

\* line 269: if (!task.status || !task.status.exportURL)
MissingURL(r) == ~r.url

FindFileToken_Any(r, k) == IF r.cookie = "none" THEN -2 ELSE k

\* lines 275-277: getTasksRequestCookies.find(c => c.includes("file_token="));
\* -2 stands for the TypeError of calling find on an absent header
FindFileToken(r, k) ==
    CASE r.cookie = "token" -> k
      [] r.cookie = "other" -> 0
      [] OTHER -> -2

IsRateLimited_AnyError(r) == r.http \in {"429", "err"}

\* line 291: axios.isAxiosError(error) && error.response?.status === 429
IsRateLimited(r) == r.http = "429"

(***************************************************************************)
(* One pass through the try block (lines 240-300) for answer r, the k-th   *)
(* getTasks answer.  Returns how the iteration ends and the locals.        *)
(***************************************************************************)
Iteration(r, k, attempts, retries, url, cookie) ==
    LET keep == [ctl |-> "continue", err |-> "", attempts |-> attempts,
                 retries |-> retries, url |-> url, cookie |-> cookie]
    IN  CASE IsRateLimited(r) ->
               [keep EXCEPT !.retries = retries + 1,
                            !.attempts = AfterRateLimit(attempts)]
          [] r.http = "err" ->
               [keep EXCEPT !.ctl = "throw", !.err = "Transport"]
          [] ~r.found -> keep
          [] HasError(r) ->
               [keep EXCEPT !.ctl = "throw", !.err = "ExportFailed"]
          [] r.state = "success" ->
               IF MissingURL(r)
               THEN [keep EXCEPT !.ctl = "throw", !.err = "ExportURLMissing"]
               ELSE LET c == FindFileToken(r, k)
                    IN  CASE c = -2 ->
                               [keep EXCEPT !.ctl = "throw", !.err = "TypeError",
                                            !.url = k]
                          [] c = 0 ->
                               [keep EXCEPT !.ctl = "throw",
                                            !.err = "FileTokenMissing",
                                            !.url = k, !.cookie = 0]
                          [] OTHER ->
                               [keep EXCEPT !.ctl = "break", !.url = k,
                                            !.cookie = c]
          [] OTHER -> [keep EXCEPT !.retries = 0]

\* the error classes of the specification
RemoteFailure == {"ExportFailed"}
ProtocolError == {"ExportURLMissing", "FileTokenMissing", "TypeError",
                  "Transport", "EnqueueFailed"}
DownloadError == {"DownloadFailed", "WriteError"}

(***************************************************************************)
(* Run the synchronous code from a control point up to the next await.     *)
(***************************************************************************)
\* lines 234-238: loop test, pollAttempts++, sleep(...);
\* lines 304-313 when the loop is left
Resume(o) ==
    /\ exportURL' = o.url
    /\ fileTokenCookie' = o.cookie
    /\ rateLimitRetries' = o.retries
    /\ CASE o.ctl = "throw" ->
              /\ pc' = "failed" /\ err' = o.err
              /\ pollAttempts' = o.attempts
              /\ UNCHANGED <<atHead, sleepFor, dl>>
         [] o.ctl = "continue" /\ LoopCond(o.attempts) ->
              /\ pc' = "sleeping" /\ err' = ""
              /\ atHead' = o.attempts
              /\ pollAttempts' = o.attempts + 1
              /\ sleepFor' = SleepSeconds(o.retries)
              /\ UNCHANGED dl
         [] OTHER ->
              /\ pollAttempts' = o.attempts
              /\ UNCHANGED <<atHead, sleepFor>>
              /\ IF TimedOut(o.attempts)
                 THEN pc' = "failed" /\ err' = "Timeout" /\ UNCHANGED dl
                 ELSE /\ pc' = "downloading" /\ err' = ""
                      /\ dl' = [url |-> o.url, cookie |-> o.cookie]

Enqueue_Retry ==
    /\ pc = "enqueue"
    /\ nEnqueue' = nEnqueue + 1
    /\ \E ok \in BOOLEAN :
         IF ok
         THEN Resume([ctl |-> "continue", err |-> "", attempts |-> 0,
                      retries |-> 0, url |-> 0, cookie |-> 0])
         ELSE /\ pc' = IF nEnqueue = 0 THEN "enqueue" ELSE "failed"
              /\ err' = IF nEnqueue = 0 THEN "" ELSE "EnqueueFailed"
              /\ UNCHANGED <<pollAttempts, rateLimitRetries, atHead, sleepFor,
                             exportURL, fileTokenCookie, dl>>
    /\ UNCHANGED <<nQueries, n429, allNotFound, last, streamVars>>
    /\ UNCHANGED zipVars

\* lines 219-231: await client.post("enqueueTask"), then enter the loop
Enqueue ==
    /\ pc = "enqueue"
    /\ nEnqueue' = nEnqueue + 1
    /\ \E ok \in BOOLEAN :
         IF ok
         THEN Resume([ctl |-> "continue", err |-> "", attempts |-> 0,
                      retries |-> 0, url |-> 0, cookie |-> 0])
         ELSE /\ pc' = "failed" /\ err' = "EnqueueFailed"
              /\ UNCHANGED <<pollAttempts, rateLimitRetries, atHead, sleepFor,
                             exportURL, fileTokenCookie, dl>>
    /\ UNCHANGED <<nQueries, n429, allNotFound, last, streamVars>>
    /\ UNCHANGED zipVars

\* line 238 -> 247: the sleep is over, the status query is issued
SleepDone ==
    /\ pc = "sleeping"
    /\ pc' = "polling"
    /\ nQueries' = nQueries + 1
    /\ UNCHANGED <<err, pollAttempts, rateLimitRetries, atHead, sleepFor,
                   exportURL, fileTokenCookie, nEnqueue, n429, allNotFound,
                   last, dl, streamVars>>
    /\ UNCHANGED zipVars

\* lines 247-300: the status query settles with r
TasksResponse ==
    /\ pc = "polling"
    /\ \E r \in Responses :
         /\ r.http = "429" => n429 < MaxRateLimited
         /\ last' = r
         /\ n429' = IF r.http = "429" THEN n429 + 1 ELSE n429
         /\ allNotFound' = (allNotFound /\ r.http = "ok" /\ ~r.found)
         /\ Resume(Iteration(r, nQueries, pollAttempts, rateLimitRetries,
                             exportURL, fileTokenCookie))
    /\ UNCHANGED <<nEnqueue, nQueries, streamVars>>
    /\ UNCHANGED zipVars

\* lines 308-318: the GET settles; on success the body is piped to the file
DownloadResponse ==
    /\ pc = "downloading"
    /\ \/ /\ pc' = "failed" /\ err' = "DownloadFailed"
          /\ UNCHANGED streamVars
       \/ \E n \in 1..MaxBytes :
            /\ pc' = "streaming" /\ size' = n /\ received' = 0
            /\ src' = "flowing"
            /\ UNCHANGED err
    /\ UNCHANGED <<pollVars, nEnqueue, dl>>
    /\ UNCHANGED zipVars

\* line 318: pipe() writes one more chunk to the file
Chunk ==
    /\ pc = "streaming" /\ src = "flowing" /\ received < size
    /\ received' = received + 1
    /\ UNCHANGED <<pc, err, pollVars, nEnqueue, dl, size, src>>
    /\ UNCHANGED zipVars

\* line 318-320: the source ends, pipe() ends the writer, "close" resolves
SourceEnd ==
    /\ pc = "streaming" /\ src = "flowing" /\ received = size
    /\ src' = "ended" /\ pc' = "done"
    /\ UNCHANGED <<err, pollVars, nEnqueue, dl, size, received>>
    /\ UNCHANGED zipVars

\* line 318: the source is cut before content-length bytes: it emits
\* "error"/"close" without "end"; pipe() unpipes and leaves the writer open,
\* and lines 319-322 listen on the writer only
SourceError ==
    /\ pc = "streaming" /\ src = "flowing" /\ received < size
    /\ src' = "errored"
    /\ UNCHANGED <<pc, err, pollVars, nEnqueue, dl, size, received>>
    /\ UNCHANGED zipVars

\* line 321: the writer emits "error"
WriterError ==
    /\ pc = "streaming" /\ src = "flowing"
    /\ pc' = "failed" /\ err' = "WriteError"
    /\ UNCHANGED <<pollVars, nEnqueue, dl, streamVars>>
    /\ UNCHANGED zipVars

(***************************************************************************)
(* Directory trees.  A tree maps entry names to nodes; a node is a file    *)
(* (data "zip" when it is an archive, whose content is sub) or a directory *)
(* (whose children are sub).                                               *)
(***************************************************************************)
EmptyTree == [n \in {} |-> 0]

File(d) == [kind |-> "file", data |-> d, sub |-> EmptyTree]

Zip(t) == [kind |-> "file", data |-> "zip", sub |-> t]

Dir(t) == [kind |-> "dir", data |-> "", sub |-> t]

Absent == [kind |-> "absent", data |-> "", sub |-> EmptyTree]

\* the entry names of the model, in archive order
NameOrder ==
    <<"Export-a", "Export-b", "Part-1.zip", "Part-2.zip", "notes.md",
      "page.md">>

\* line 334: the names that contain a match of /Part-\d+\.zip/
PartNames == {"Part-1.zip", "Part-2.zip"}

\* line 349: the names with name.startsWith("Export-")
ExportNames == {"Export-a", "Export-b"}

\* a tree from its slots, the absent ones dropped
Present(f) == [n \in {m \in DOMAIN f : f[m].kind # "absent"} |-> f[n]]

RECURSIVE Weight(_, _)
\* the number of nodes of tree t under the names NameOrder[i..], nested
\* archives included
Weight(t, i) ==
    IF i > Len(NameOrder) THEN 0
    ELSE LET n == NameOrder[i]
         IN  (IF n \in DOMAIN t THEN 1 + Weight(t[n].sub, 1) ELSE 0)
             + Weight(t, i + 1)

\* the children an export folder of the archive can have
FolderTrees ==
    { Present(("notes.md" :> s.n) @@ ("page.md" :> s.p)
              @@ ("Export-b" :> s.e)) :
        s \in [n : {Absent, File("a"), File("b")},
               p : {Absent, File("p")},
               e : {Absent, Dir(EmptyTree),
                    Dir("notes.md" :> File("a"))}] }

\* the content a Part-N.zip of the archive can have
PartTrees ==
    { Present(("notes.md" :> s.n) @@ ("Part-1.zip" :> s.p)
              @@ ("Export-a" :> s.e)) :
        s \in [n : {Absent, File("b")},
               p : {Absent, Zip("notes.md" :> File("a"))},
               e : {Absent, Dir("notes.md" :> File("a"))}] }

\* the archives extractZip is run on
Archives ==
    { t \in { Present(("notes.md" :> s.n) @@ ("Part-1.zip" :> s.p1)
                      @@ ("Part-2.zip" :> s.p2) @@ ("Export-a" :> s.ea)
                      @@ ("Export-b" :> s.eb)) :
                s \in [n : {Absent, File("a")},
                       p1 : {Absent} \cup {Zip(t) : t \in PartTrees},
                       p2 : {Absent} \cup {Zip(t) : t \in PartTrees},
                       ea : {Absent} \cup {Dir(t) : t \in FolderTrees},
                       eb : {Absent} \cup {Dir(t) : t \in FolderTrees}] } :
        Weight(t, 1) <= MaxNodes }

RECURSIVE Has(_, _)
\* fs.existsSync(join(t, ...p))
Has(t, p) ==
    /\ p # <<>>
    /\ Head(p) \in DOMAIN t
    /\ \/ Len(p) = 1
       \/ t[Head(p)].kind = "dir" /\ Has(t[Head(p)].sub, Tail(p))

RECURSIVE Get(_, _)
Get(t, p) ==
    IF Len(p) = 1 THEN t[Head(p)] ELSE Get(t[Head(p)].sub, Tail(p))

RECURSIVE Put(_, _, _)
Put(t, p, x) ==
    IF Len(p) = 1
    THEN [n \in DOMAIN t \cup {Head(p)} |-> IF n = Head(p) THEN x ELSE t[n]]
    ELSE [n \in DOMAIN t |->
            IF n = Head(p) THEN Dir(Put(t[n].sub, Tail(p), x)) ELSE t[n]]

RECURSIVE Del(_, _)
Del(t, p) ==
    IF Len(p) = 1
    THEN [n \in DOMAIN t \ {Head(p)} |-> t[n]]
    ELSE [n \in DOMAIN t |->
            IF n = Head(p) THEN Dir(Del(t[n].sub, Tail(p))) ELSE t[n]]

RECURSIVE Conflicts(_, _)
\* extracting archive a over tree t meets a file where it needs a directory,
\* or a directory where it writes a file
Conflicts(t, a) ==
    \E n \in DOMAIN a \cap DOMAIN t :
        \/ a[n].kind # t[n].kind
        \/ a[n].kind = "dir" /\ Conflicts(t[n].sub, a[n].sub)

RECURSIVE Overlay(_, _)
\* lines 330, 342: zip.extractAllTo(destination, true): directories are
\* merged, files are overwritten
Overlay(t, a) ==
    [n \in DOMAIN t \cup DOMAIN a |->
        IF n \notin DOMAIN a THEN t[n]
        ELSE IF n \notin DOMAIN t THEN a[n]
        ELSE IF a[n].kind = "dir" THEN Dir(Overlay(t[n].sub, a[n].sub))
        ELSE a[n]]

Prefixed(n, ps) == [k \in 1..Len(ps) |-> <<n>> \o ps[k]]

RECURSIVE EntryNames(_, _)
\* line 332: zip.getEntries().map(entry => entry.entryName), as paths, for the
\* names NameOrder[i..]
EntryNames(t, i) ==
    IF i > Len(NameOrder) THEN <<>>
    ELSE LET n == NameOrder[i]
             here == IF n \notin DOMAIN t THEN <<>>
                     ELSE IF t[n].kind = "dir"
                          THEN <<<<n>>>> \o Prefixed(n, EntryNames(t[n].sub, 1))
                          ELSE <<<<n>>>>
         IN  here \o EntryNames(t, i + 1)

MatchesPart_TopOnly(p) == Len(p) = 1 /\ p[1] \in PartNames

\* line 334: name.match(/Part-\d+\.zip/), unanchored, on the whole entry name
MatchesPart(p) == \E i \in 1..Len(p) : p[i] \in PartNames

\* lines 332-335
PartFilesOf(a) == SelectSeq(EntryNames(a, 1), MatchesPart)

IsExportFolder_Never(name) == FALSE

\* line 349
IsExportFolder(name) == name \in ExportNames

\* a path that holds a nested archive, anywhere in the tree
ResidualParts(t) ==
    {k \in 1..Len(EntryNames(t, 1)) : MatchesPart(EntryNames(t, 1)[k])}

NoFolders == [f \in {} |-> 0]

(***************************************************************************)
(* extractZip, lines 325-367, one action per file-system call that the     *)
(* event loop or the thread pool runs on its own                           *)
(***************************************************************************)
ZipFail(e) ==
    /\ zpc' = "failed" /\ zerr' = e
    /\ UNCHANGED <<dest, partFiles, partIdx, unlinks, folders>>

\* lines 329-335: extract the archive into the fresh destination and list
\* the part files
ExtractTop ==
    /\ zpc = "extract"
    /\ dest' = Overlay(dest, archive)
    /\ partFiles' = PartFilesOf(archive)
    /\ partIdx' = 1
    /\ zpc' = "parts"
    /\ UNCHANGED <<archive, zerr, unlinks, folders, runs, firstTree, listed>>
    /\ UNCHANGED exportVars

\* lines 339-343: the synchronous part of one partFiles.map callback: open
\* the part on disk, extract it, issue its unlink
PartExtract ==
    /\ zpc = "parts" /\ partIdx <= Len(partFiles)
    /\ LET p == partFiles[partIdx]
       IN  IF ~Has(dest, p) \/ Get(dest, p).data # "zip"
           THEN ZipFail("BadZip")
           ELSE IF Conflicts(dest, Get(dest, p).sub)
           THEN ZipFail("WriteConflict")
           ELSE /\ dest' = Overlay(dest, Get(dest, p).sub)
                /\ unlinks' = unlinks \cup {p}
                /\ partIdx' = partIdx + 1
                /\ UNCHANGED <<zpc, zerr, partFiles, folders>>
    /\ UNCHANGED <<archive, runs, firstTree, listed>>
    /\ UNCHANGED exportVars

\* line 343: the thread pool runs one issued fs.unlink(partFile)
Unlink ==
    /\ zpc = "parts"
    /\ \E p \in unlinks :
         IF Has(dest, p) /\ Get(dest, p).kind = "file"
         THEN /\ dest' = Del(dest, p)
              /\ unlinks' = unlinks \ {p}
              /\ UNCHANGED <<zpc, zerr, partFiles, partIdx, folders>>
         ELSE ZipFail("ENOENT")
    /\ UNCHANGED <<archive, runs, firstTree, listed>>
    /\ UNCHANGED exportVars

\* lines 345-355: every part is done: readdir(destination), filter the
\* export folders, start one callback per folder
ListFolders ==
    /\ zpc = "parts" /\ partIdx > Len(partFiles) /\ unlinks = {}
    /\ LET found == {n \in DOMAIN dest : IsExportFolder(n)}
       IN  /\ folders' = [f \in found |-> [phase |-> "readdir", todo |-> {}]]
           /\ zpc' = IF found = {} THEN "done" ELSE "folders"
    /\ listed' = dest
    /\ UNCHANGED <<archive, dest, zerr, partFiles, partIdx, unlinks, runs,
                   firstTree>>
    /\ UNCHANGED exportVars

AfterMove_Early(todo) ==
    [phase |-> IF \A c, d \in todo : c = d THEN "rmdir" ELSE "moving",
     todo |-> todo]

\* what remains to do for a folder once the children in todo are left
AfterMove(todo) ==
    [phase |-> IF todo = {} THEN "rmdir" ELSE "moving", todo |-> todo]

\* line 356: fs.readdir(folderPath) runs; the moves of its children start
FolderReaddir ==
    /\ zpc = "folders"
    /\ \E f \in DOMAIN folders :
         /\ folders[f].phase = "readdir"
         /\ IF ~Has(dest, <<f>>) THEN ZipFail("ENOENT")
            ELSE IF dest[f].kind # "dir" THEN ZipFail("ENOTDIR")
            ELSE /\ folders' =
                      [folders EXCEPT ![f] = AfterMove(DOMAIN dest[f].sub)]
                 /\ UNCHANGED <<dest, zpc, zerr, partFiles, partIdx, unlinks>>
    /\ UNCHANGED <<archive, runs, firstTree, listed>>
    /\ UNCHANGED exportVars

\* rename(2) of from to to in tree t: "" when it succeeds, else the errno
RenameError(t, from, to) ==
    IF ~Has(t, from) THEN "ENOENT"
    ELSE IF ~Has(t, to) THEN ""
    ELSE LET s == Get(t, from)
             d == Get(t, to)
         IN  CASE s.kind = "file" /\ d.kind = "dir" -> "EISDIR"
               [] s.kind = "dir" /\ d.kind = "file" -> "ENOTDIR"
               [] s.kind = "dir" /\ d.kind = "dir" /\ DOMAIN d.sub # {} ->
                    "ENOTEMPTY"
               [] OTHER -> ""

Renamed_KeepExisting(t, from, to) ==
    IF Has(t, to) THEN Del(t, from) ELSE Put(Del(t, from), to, Get(t, from))

\* the tree after a successful rename(from, to)
Renamed(t, from, to) == Put(Del(t, from), to, Get(t, from))

\* lines 358-362: one fs.rename(filePath, newFilePath) runs
Rename ==
    /\ zpc = "folders"
    /\ \E f \in DOMAIN folders :
         /\ folders[f].phase = "moving"
         /\ \E c \in folders[f].todo :
              LET e == RenameError(dest, <<f, c>>, <<c>>)
              IN  IF e # "" THEN ZipFail(e)
                  ELSE /\ dest' = Renamed(dest, <<f, c>>, <<c>>)
                       /\ folders' = [folders EXCEPT
                                        ![f] = AfterMove(@.todo \ {c})]
                       /\ UNCHANGED <<zpc, zerr, partFiles, partIdx, unlinks>>
    /\ UNCHANGED <<archive, runs, firstTree, listed>>
    /\ UNCHANGED exportVars

\* line 364: fs.rmdir(folderPath) runs; extractZip resolves after the last one
Rmdir ==
    /\ zpc = "folders"
    /\ \E f \in DOMAIN folders :
         /\ folders[f].phase = "rmdir"
         /\ IF ~Has(dest, <<f>>) THEN ZipFail("ENOENT")
            ELSE IF dest[f].kind # "dir" THEN ZipFail("ENOTDIR")
            ELSE IF DOMAIN dest[f].sub # {} THEN ZipFail("ENOTEMPTY")
            ELSE /\ dest' = Del(dest, <<f>>)
                 /\ folders' = [folders EXCEPT ![f].phase = "gone"]
                 /\ zpc' = IF \A g \in DOMAIN folders \ {f} :
                                 folders[g].phase = "gone"
                           THEN "done" ELSE "folders"
                 /\ UNCHANGED <<zerr, partFiles, partIdx, unlinks>>
    /\ UNCHANGED <<archive, runs, firstTree, listed>>
    /\ UNCHANGED exportVars

RECURSIVE SeqMove(_, _, _)
\* lines 357-364 run to completion for folder f before anything else runs:
\* the children in todo are renamed one after another, then f is removed
SeqMove(t, f, todo) ==
    IF todo = {} THEN Del(t, <<f>>)
    ELSE LET c == CHOOSE x \in todo : TRUE
         IN  SeqMove(Renamed(t, <<f, c>>, <<c>>), f, todo \ {c})

RECURSIVE SeqFlatten(_, _)
\* lines 352-366 with the callbacks of the folders fs run strictly one after
\* another on tree t
SeqFlatten(t, fs) ==
    IF fs = {} THEN t
    ELSE LET f == CHOOSE x \in fs : TRUE
         IN  SeqFlatten(SeqMove(t, f, DOMAIN t[f].sub), fs \ {f})

\* extractZip is started again on the same archive with a fresh destination
RunAgain ==
    /\ zpc = "done" /\ runs = 1
    /\ runs' = 2
    /\ firstTree' = dest
    /\ dest' = EmptyTree
    /\ zpc' = "extract"
    /\ partFiles' = <<>> /\ partIdx' = 1 /\ unlinks' = {}
    /\ folders' = NoFolders
    /\ listed' = EmptyTree
    /\ UNCHANGED <<archive, zerr>>
    /\ UNCHANGED exportVars

ZipIdle ==
    /\ archive = EmptyTree /\ dest = EmptyTree
    /\ zpc = "idle" /\ zerr = ""
    /\ partFiles = <<>> /\ partIdx = 1 /\ unlinks = {}
    /\ folders = NoFolders
    /\ runs = 0 /\ firstTree = EmptyTree /\ listed = EmptyTree

Init ==
    /\ pc = "enqueue" /\ err = ""
    /\ pollAttempts = 0 /\ rateLimitRetries = 0 /\ atHead = 0 /\ sleepFor = 0
    /\ exportURL = 0 /\ fileTokenCookie = 0
    /\ nEnqueue = 0 /\ nQueries = 0 /\ n429 = 0
    /\ allNotFound = TRUE /\ last = NoResponse
    /\ dl = NoDownload /\ size = 0 /\ received = 0 /\ src = "none"
    /\ ZipIdle

Next ==
    \/ Enqueue
    \/ SleepDone
    \/ TasksResponse
    \/ DownloadResponse
    \/ Chunk
    \/ SourceEnd
    \/ SourceError
    \/ WriterError

Spec == Init /\ [][Next]_vars

\* the timer of line 238 fires and the requests of lines 219 and 247 settle
SpecLive ==
    /\ Spec
    /\ WF_vars(Enqueue) /\ WF_vars(SleepDone) /\ WF_vars(TasksResponse)

\* extractZip alone, on every archive of the model, after a finished download
InitZip ==
    /\ pc = "done" /\ err = ""
    /\ pollAttempts = 1 /\ rateLimitRetries = 0 /\ atHead = 0
    /\ sleepFor = SleepSeconds(0)
    /\ exportURL = 1 /\ fileTokenCookie = 1
    /\ nEnqueue = 1 /\ nQueries = 1 /\ n429 = 0
    /\ allNotFound = FALSE
    /\ last = [http |-> "ok", found |-> TRUE, state |-> "success",
               error |-> FALSE, url |-> TRUE, cookie |-> "token"]
    /\ dl = [url |-> 1, cookie |-> 1]
    /\ size = 1 /\ received = 1 /\ src = "ended"
    /\ archive \in Archives
    /\ dest = EmptyTree
    /\ zpc = "extract" /\ zerr = ""
    /\ partFiles = <<>> /\ partIdx = 1 /\ unlinks = {}
    /\ folders = NoFolders
    /\ runs = 1 /\ firstTree = EmptyTree /\ listed = EmptyTree

NextZip ==
    \/ ExtractTop
    \/ PartExtract
    \/ Unlink
    \/ ListFolders
    \/ FolderReaddir
    \/ Rename
    \/ Rmdir
    \/ RunAgain

SpecZip == InitZip /\ [][NextZip]_vars

(***************************************************************************)
(* run, lines 369-380: export, clear the destination, extract, delete the  *)
(* downloaded archive                                                      *)
(***************************************************************************)
\* what the destination directory holds before the run
OldTree == ("old.md" :> File("old"))

RmDest_Early ==
    /\ zpc = "idle"
    /\ dest' = EmptyTree
    /\ zpc' = "cleared"
    /\ UNCHANGED <<archive, zerr, partFiles, partIdx, unlinks, folders, runs,
                   firstTree, listed>>
    /\ UNCHANGED exportVars

\* lines 373-374: exportFromNotion has resolved (its locals, and the record
\* kept of its requests, end with the call); fs.rm(workspaceDir) runs
RmDest ==
    /\ pc = "done" /\ zpc = "idle"
    /\ dest' = EmptyTree
    /\ zpc' = "cleared"
    /\ pollAttempts' = 0 /\ rateLimitRetries' = 0 /\ atHead' = 0
    /\ sleepFor' = 0 /\ exportURL' = 0 /\ fileTokenCookie' = 0
    /\ nQueries' = 0 /\ n429' = 0 /\ allNotFound' = TRUE
    /\ last' = NoResponse /\ dl' = NoDownload
    /\ size' = 0 /\ received' = 0 /\ src' = "none"
    /\ UNCHANGED <<pc, err, nEnqueue>>
    /\ UNCHANGED <<archive, zerr, partFiles, partIdx, unlinks, folders, runs,
                   firstTree, listed>>

\* lines 375-376: fs.mkdir(workspaceDir) runs, extractZip is called
MkdirDest ==
    /\ zpc = "cleared"
    /\ dest' = EmptyTree
    /\ zpc' = "open"
    /\ runs' = runs + 1
    /\ UNCHANGED <<archive, zerr, partFiles, partIdx, unlinks, folders,
                   firstTree, listed>>
    /\ UNCHANGED exportVars

\* line 329: new AdmZip(filename) reads the downloaded file; it throws when
\* the file is not a well-formed archive
OpenArchive ==
    /\ zpc = "open"
    /\ \E ok \in BOOLEAN :
         IF ok
         THEN /\ archive' \in Archives
              /\ zpc' = "extract"
              /\ UNCHANGED zerr
         ELSE /\ zpc' = "failed" /\ zerr' = "BadArchive"
              /\ UNCHANGED archive
    /\ UNCHANGED <<dest, partFiles, partIdx, unlinks, folders, runs, firstTree,
                   listed>>
    /\ UNCHANGED exportVars

UnlinkZip_Early ==
    /\ zpc \in {"extract", "parts", "folders", "done"}
    /\ zpc' = "finished"
    /\ UNCHANGED <<archive, dest, zerr, partFiles, partIdx, unlinks, folders,
                   runs, firstTree, listed>>
    /\ UNCHANGED exportVars

\* lines 377-379: extractZip has resolved; fs.unlink(workspaceZip) runs
UnlinkZip ==
    /\ zpc = "done"
    /\ zpc' = "finished"
    /\ UNCHANGED <<archive, dest, zerr, partFiles, partIdx, unlinks, folders,
                   runs, firstTree, listed>>
    /\ UNCHANGED exportVars

InitRun ==
    /\ pc = "enqueue" /\ err = ""
    /\ pollAttempts = 0 /\ rateLimitRetries = 0 /\ atHead = 0 /\ sleepFor = 0
    /\ exportURL = 0 /\ fileTokenCookie = 0
    /\ nEnqueue = 0 /\ nQueries = 0 /\ n429 = 0
    /\ allNotFound = TRUE /\ last = NoResponse
    /\ dl = NoDownload /\ size = 0 /\ received = 0 /\ src = "none"
    /\ archive = EmptyTree /\ dest = OldTree
    /\ zpc = "idle" /\ zerr = ""
    /\ partFiles = <<>> /\ partIdx = 1 /\ unlinks = {}
    /\ folders = NoFolders
    /\ runs = 0 /\ firstTree = EmptyTree /\ listed = EmptyTree

NextRun ==
    \/ Enqueue
    \/ SleepDone
    \/ TasksResponse
    \/ DownloadResponse
    \/ Chunk
    \/ SourceEnd
    \/ SourceError
    \/ WriterError
    \/ RmDest
    \/ MkdirDest
    \/ OpenArchive
    \/ ExtractTop
    \/ PartExtract
    \/ Unlink
    \/ ListFolders
    \/ FolderReaddir
    \/ Rename
    \/ Rmdir
    \/ UnlinkZip

SpecRun == InitRun /\ [][NextRun]_vars

(***************************************************************************)
(* Properties of the polling loop and the download                         *)
(***************************************************************************)
Terminal == {"done", "failed"}

\* an answer that carries a record for the task
Found(r) == r.http = "ok" /\ r.found

\* the answers the loop is meant to continue on
NonTerminal(r) ==
    /\ r.http = "ok"
    /\ \/ ~r.found
       \/ ~r.error /\ r.state \in {"in_progress", "unknown"}

\* C1: an answer with state=success leads to the download only if that very
\* answer carries both a non-empty exportURL and a file_token cookie (the URL
\* and the cookie sent are the ones read from it); a success answer lacking
\* either ends the run with an error, without another poll or a download.
C1_SuccessNeedsUrlAndToken ==
    /\ dl # NoDownload =>
         /\ Found(last) /\ last.state = "success"
         /\ last.url /\ last.cookie = "token"
         /\ dl.url = nQueries /\ dl.cookie = nQueries
    /\ pc \in {"downloading", "streaming", "done"} => dl # NoDownload
    /\ (Found(last) /\ last.state = "success"
          /\ (~last.url \/ last.cookie # "token")) =>
         /\ pc = "failed" /\ dl = NoDownload
         /\ err \in ProtocolError \cup RemoteFailure

C1_Witness ==
    /\ pc = "downloading" /\ nQueries >= 2
    /\ dl.url = nQueries /\ dl.cookie = nQueries

\* C2: an answer whose task record has a non-empty error field ends the run
\* at once with RemoteFailure, whatever its state; no poll and no download
\* follows (a failed run takes no further step).
C2_ErrorFieldFails ==
    [][/\ pc \notin Terminal
       /\ (pc = "polling" /\ Found(last') /\ last'.error) =>
            /\ pc' = "failed" /\ err' \in RemoteFailure
            /\ nQueries' = nQueries /\ dl' = NoDownload]_vars

C2_Witness ==
    /\ pc = "failed" /\ err = "ExportFailed"
    /\ last.error /\ last.state = "success" /\ last.url
    /\ last.cookie = "token"

\* C3: an answer with state=failure ends the run at once with RemoteFailure,
\* also when the record has no error field.
C3_FailureStateFails ==
    (Found(last) /\ last.state = "failure") =>
        (pc = "failed" /\ err \in RemoteFailure)

\* C4: after a non-rate-limited answer that does not end the loop (not found,
\* in_progress, unrecognized state) rateLimitRetries is 0 when the next
\* iteration computes its sleep.
C4_StrikesResetAfterAnswer ==
    (pc = "sleeping" /\ NonTerminal(last)) =>
        (rateLimitRetries = 0 /\ sleepFor = SleepSeconds(0))

\* C5: a 429 answer consumes no attempt: the loop goes on, the value of
\* pollAttempts at the head of the next iteration is the one at the head of
\* the iteration that got the 429, and rateLimitRetries grows by exactly 1.
C5_RateLimitKeepsBudget ==
    [][(pc = "polling" /\ last'.http = "429") =>
          /\ pc' = "sleeping"
          /\ atHead' = atHead
          /\ pollAttempts' = pollAttempts
          /\ rateLimitRetries' = rateLimitRetries + 1]_vars

C5_Witness ==
    /\ pc = "sleeping" /\ last.http = "429"
    /\ rateLimitRetries >= 2 /\ atHead >= 1

\* C6: once the MAX_POLL_ATTEMPTS-th counted answer has been handled and it
\* was non-terminal, the run has failed with Timeout: no download request was
\* issued and every status query was either counted or rate-limited.
C6_CeilingTimesOut ==
    (pollAttempts = MAX_POLL_ATTEMPTS /\ pc \notin {"sleeping", "polling"}
       /\ NonTerminal(last)) =>
        /\ pc = "failed" /\ err = "Timeout"
        /\ dl = NoDownload
        /\ nQueries = MAX_POLL_ATTEMPTS + n429

C6_Witness ==
    /\ pc = "failed" /\ err = "Timeout"
    /\ Found(last) /\ last.state = "in_progress" /\ n429 > 0

\* C7: while every answer so far was "not found", no error is raised and each
\* answer counts as one attempt; such a run can only end in Timeout, after
\* exactly MAX_POLL_ATTEMPTS status queries.
C7_NotFoundCountsAndContinues ==
    (allNotFound /\ nQueries > 0) =>
        /\ pc \in {"sleeping", "polling", "failed"}
        /\ pc = "sleeping" => pollAttempts = nQueries + 1
        /\ pc = "polling" => pollAttempts = nQueries
        /\ pc = "failed" =>
             (err = "Timeout" /\ nQueries = MAX_POLL_ATTEMPTS)

C7_Witness ==
    /\ pc = "failed" /\ err = "Timeout" /\ allNotFound
    /\ nQueries = MAX_POLL_ATTEMPTS

\* C8: when the download stream terminates before content-length bytes were
\* received, the download step fails with DownloadError.
C8_TruncatedDownloadFails ==
    (src = "errored" /\ received < size) =>
        (pc = "failed" /\ err \in DownloadError)

(***************************************************************************)
(* Properties of extractZip                                                *)
(***************************************************************************)
\* C9: after extractZip completed without error the destination holds no
\* Part-<digits>.zip at any path and no top-level entry named Export-*, and
\* the children of the archive's export folders and the ordinary contents of
\* its parts are directly under the destination.
C9_NoResidue ==
    zpc = "done" =>
        /\ ResidualParts(dest) = {}
        /\ \A n \in DOMAIN dest : n \notin ExportNames
        /\ \A f \in DOMAIN archive :
             (f \in ExportNames /\ archive[f].kind = "dir") =>
                 DOMAIN archive[f].sub \subseteq DOMAIN dest
        /\ \A p \in DOMAIN archive :
             p \in PartNames =>
                 \A n \in DOMAIN archive[p].sub :
                     n \notin ExportNames \cup PartNames => n \in DOMAIN dest

\* C10: two runs of extractZip on the same archive into fresh destination
\* directories end with identical directory trees.
C10_Deterministic ==
    (zpc = "done" /\ runs = 2) => dest = firstTree

(***************************************************************************)
(* Properties of the whole run                                             *)
(***************************************************************************)
RunFailed == pc = "failed" \/ zpc = "failed"

\* C11: a run that has failed, in whatever step, has left the destination
\* directory with the content it had before the run: never cleared, never
\* partly populated.
C11_NoPartialResult == RunFailed => dest = OldTree

\* C12: a run issues exactly one enqueueTask request; when that request
\* fails the run has ended with that error and has issued no status query
\* and no download request, and the destination directory is as it was.
C12_SubmissionOnce ==
    /\ nEnqueue <= 1
    /\ pc # "enqueue" => nEnqueue = 1
    /\ err = "EnqueueFailed" =>
         /\ pc = "failed"
         /\ nQueries = 0 /\ last = NoResponse
         /\ dl = NoDownload /\ src = "none"
         /\ dest = OldTree /\ zpc = "idle"

C12_Witness == pc = "failed" /\ err = "EnqueueFailed" /\ nEnqueue = 1

\* a complete success answer: state success, a non-empty exportURL and a
\* file_token cookie
CompleteSuccess(r) ==
    /\ r.http = "ok" /\ r.found /\ ~r.error
    /\ r.state = "success" /\ r.url /\ r.cookie = "token"

\* C13: a complete success answer ends the loop with the download, on every
\* attempt up to and including the MAX_POLL_ATTEMPTS-th; it is never reported
\* as Timeout.
C13_SuccessOnLastAttempt ==
    [][(pc = "polling" /\ CompleteSuccess(last'))
          => /\ pc' = "downloading"
             /\ dl' = [url |-> nQueries, cookie |-> nQueries]
             /\ ~(pc' = "failed" /\ err' = "Timeout")]_vars

\* C14: every sleep before a status query lasts exactly POLL_INTERVAL when
\* there is no rate-limit strike, and POLL_INTERVAL + 2^k after k >= 1
\* consecutive rate-limited answers.
C14_SleepIsBaseInterval ==
    pc = "sleeping" =>
        sleepFor = IF rateLimitRetries = 0
                   THEN POLL_INTERVAL
                   ELSE POLL_INTERVAL + Pow2(rateLimitRetries)

\* C15: a status query that fails with an error other than HTTP 429 ends the
\* run at once with that error: no sleep, no status query and no download
\* request follows; after a failed query only a 429 leads to another poll.
C15_OnlyRateLimitRetried ==
    [][/\ (pc = "polling" /\ last'.http = "err")
            => /\ pc' = "failed" /\ err' = "Transport"
               /\ nQueries' = nQueries /\ dl' = NoDownload
       /\ (pc = "polling" /\ last'.http # "ok" /\ pc' = "sleeping")
            => last'.http = "429"
       /\ pc = "failed" => vars' = vars]_vars

C15_Witness == pc = "failed" /\ err = "Transport" /\ last.http = "err"

\* C16: the steps of a run happen in the order submit, poll to success,
\* download, clear the destination, extract, delete the archive.  A status
\* query needs the submission; the download starts on a complete success
\* answer only; the destination is cleared only once the download is
\* complete; extraction starts from the cleared, empty destination; the
\* archive is deleted only once extraction has ended without error; and
\* after a failure no later step starts.
C16_StepOrder ==
    [][/\ nQueries' > nQueries => nEnqueue = 1 /\ pc = "sleeping"
       /\ (pc # "downloading" /\ pc' = "downloading")
            => pc = "polling" /\ CompleteSuccess(last')
       /\ (zpc = "idle" /\ zpc' # "idle")
            => /\ pc = "done" /\ src = "ended" /\ received = size
               /\ dl # NoDownload
               /\ zpc' = "cleared" /\ dest' = EmptyTree
       /\ (dest' # dest /\ zpc' # "cleared")
            => zpc \in {"extract", "parts", "folders"}
       /\ (zpc # "open" /\ zpc' = "open")
            => zpc = "cleared" /\ dest' = EmptyTree
       /\ (zpc # "extract" /\ zpc' = "extract") => zpc = "open"
       /\ (zpc # "finished" /\ zpc' = "finished")
            => zpc = "done" /\ zerr = ""
       /\ RunFailed => /\ pc' = pc /\ zpc' = zpc
                       /\ nEnqueue' = nEnqueue /\ nQueries' = nQueries
                       /\ dl' = dl]_vars

C16_Witness == pc = "done" /\ zpc = "finished" /\ dest # EmptyTree

(***************************************************************************)
(* Properties of the export-folder moves                                   *)
(***************************************************************************)
\* the export folders that readdir(destination) listed
ListedFolders == {n \in DOMAIN listed : IsExportFolder(n)}

\* the listed export folders are directories whose child names are pairwise
\* disjoint and differ from every listed top-level name
DisjointChildren ==
    /\ ListedFolders # {}
    /\ \A f \in ListedFolders :
         /\ listed[f].kind = "dir"
         /\ DOMAIN listed[f].sub \cap DOMAIN listed = {}
         /\ \A g \in ListedFolders \ {f} :
              DOMAIN listed[f].sub \cap DOMAIN listed[g].sub = {}

\* C17: when the export folders have pairwise disjoint child names, none of
\* them the name of a top-level entry, the concurrently started moves and
\* removals never fail, whatever their interleaving, and end in the tree
\* that processing the folders strictly one after another produces.
C17_InterleavingsAgree ==
    DisjointChildren =>
        /\ zpc \in {"folders", "done"}
        /\ zpc = "done" => dest = SeqFlatten(listed, ListedFolders)

C17_Witness ==
    /\ DisjointChildren /\ zpc = "done"
    /\ \E f, g \in ListedFolders :
         /\ f # g
         /\ DOMAIN listed[f].sub # {} /\ DOMAIN listed[g].sub # {}

(***************************************************************************)
(* Termination of the polling loop                                         *)
(***************************************************************************)
InLoop == pc \in {"enqueue", "sleeping", "polling"}

\* C18: with finitely many rate-limited answers (at most MaxRateLimited
\* here) the polling loop is left, with a download or an error; a
\* rate-limited answer itself never ends the loop and never uses up an
\* attempt: the loop sleeps again, longer than before, and asks again.
C18_TerminatesUnlessRateLimited ==
    /\ <>(~InLoop)
    /\ [][(pc = "polling" /\ last'.http = "429")
            => /\ pc' = "sleeping"
               /\ atHead' = atHead
               /\ rateLimitRetries' = rateLimitRetries + 1
               /\ sleepFor' > sleepFor]_vars

C18_Witness == ~InLoop /\ n429 = MaxRateLimited /\ rateLimitRetries > 0

\* the status answers received so far that were not rate-limited
Answered == (IF pc = "polling" THEN nQueries - 1 ELSE nQueries) - n429

\* C19: at the head of every iteration pollAttempts (atHead, its value when
\* the loop condition was tested) is at least 0 and below MAX_POLL_ATTEMPTS
\* and equals the number of status answers received that were not 429; so
\* at most MAX_POLL_ATTEMPTS queries ever receive a non-429 answer.
C19_AttemptsCountAnswers ==
    /\ pc \in {"sleeping", "polling"} =>
         /\ 0 <= atHead /\ atHead < MAX_POLL_ATTEMPTS
         /\ atHead = Answered
         /\ pollAttempts = atHead + 1
    /\ nQueries - n429 <= MAX_POLL_ATTEMPTS

C19_Witness ==
    /\ pc = "sleeping" /\ atHead = MAX_POLL_ATTEMPTS - 1
    /\ n429 = MaxRateLimited

\* C20: until exportFromNotion has returned successfully the destination
\* directory keeps its pre-existing content and extraction has not begun;
\* in particular a run that fails in submission, polling or download leaves
\* the destination unchanged, and the destination changes only after the
\* export has been downloaded.
C20_ExportFailureKeepsDest ==
    /\ pc # "done" => dest = OldTree /\ zpc = "idle"
    /\ pc = "failed" =>
         err \in RemoteFailure \cup ProtocolError \cup DownloadError
                 \cup {"Timeout"}

C20_Witness == pc = "failed" /\ err \in DownloadError /\ dest = OldTree

=============================================================================
